---- MODULE Spec2Model ----
(***************************************************************************)
(* Model of the bustubx buffer pool: Page metadata, the LRU-K replacer,    *)
(* the disk manager's data file and the BufferPoolManager operations.      *)
(* All BufferPoolManager methods take &mut self, so calls are serialized;  *)
(* a call that schedules a disk request blocks on its completion signal,   *)
(* so the worker's read or write is part of the calling action.            *)
(***************************************************************************)
EXTENDS Integers, Sequences, FiniteSets, TLC

\* ---------------------------------------------------------------- bounds
MaxPoolSize == 2      \* pool sizes 1..MaxPoolSize are explored
MaxReplacerK == 2     \* replacer_k arguments 1..MaxReplacerK are explored
MaxPageId == 1        \* page ids 0..MaxPageId are allocated / fetched
MaxData == 1          \* holders write 1..MaxData, 0 is the zero-filled page
MaxTs == 4            \* cap on the replacer's logical clock
MaxPin == 2           \* cap on a page's pin count
MaxNumFrames == 2     \* replacer capacities 1..MaxNumFrames (replacer on its own)
MaxFrameId == 2       \* frame ids 0..MaxFrameId are handed to the replacer on its own
MaxRequests == 3      \* requests handed to the disk scheduler on its own
MaxReaders == 1       \* read guards callers keep on one page at a time
MaxGuards == 2        \* page guards alive at a time
MaxLogData == 2       \* bytes in one write_log argument
MaxLogSize == 3       \* bytes handed to write_log in total
MaxLogBuf == 2        \* length of the buffer handed to read_log
MaxByte == 1          \* largest value of one byte of a page buffer (255 in the code)
MaxPageBytes == 13    \* bytes of a page buffer looked at byte by byte (4096 in the code)

\* ------------------------------------------------------- program constants
LRUK_REPLACER_K == 10
UsizeMax == 2147483647

NoPage == -1          \* Option<PageId>::None
NoFrame == -1         \* Option<FrameId>::None

PageIds == 0..MaxPageId
FrameIds == 0..MaxFrameId
DiskPageIds == 0..(MaxPageId + 1)   \* one id further, so that writes leave holes
DataValues == 0..MaxData

VARIABLES
    pool_size,      \* BufferPoolManager.pool_size
    next_page_id,   \* BufferPoolManager.next_page_id
    pages,          \* BufferPoolManager.pages: frame -> PageInner
    page_table,     \* BufferPoolManager.page_table: page id -> frame
    free_list,      \* BufferPoolManager.free_list (Vec, pop takes the tail)
    replacer,       \* BufferPoolManager.replacer
    disk,           \* the data file, one entry per page written or skipped
    status,         \* "ok", "panic" (call aborted) or "hang" (call blocked)
    last,           \* the most recent call, what it returned, what it scheduled
    observe,        \* which of the two records below this specification keeps
    unpinned_dirty, \* page id -> {bytes the page held when unpin_page(id, true) succeeded}
    flushed,        \* page id -> {bytes the page held when flush_page(id) succeeded}
    locked,         \* mutexes the last call held while it waited for a completion signal
    latch,          \* frame -> the RwLock guards callers keep on the page in that frame
    guards,         \* the page guards that were built and not yet released
    buf,            \* the buffer a direct caller of the DiskManager reads into
    log_io,         \* DiskManager.log_io: the log file, the handle's cursor and mode
    log_written,    \* the write_log arguments so far, one after the other
    request_queue,  \* DiskScheduler.request_queue: the channel's content
    requests,       \* request id -> the DiskRequest scheduled under that id
    worker,         \* the background thread: where it is in its loop, on which request
    scheduler,      \* the DiskScheduler handle: "live", "joining", "dropped" or "panic"
    executed,       \* request ids in the order the worker ran their disk call
    fired           \* request ids in the order the worker sent their completion signal

vars == <<pool_size, next_page_id, pages, page_table, free_list, replacer,
          disk, status, last, observe, unpinned_dirty, flushed, locked, latch,
          guards, buf, log_io, log_written, request_queue, requests, worker,
          scheduler, executed, fired>>

bpm_vars == <<pool_size, next_page_id, pages, page_table, free_list, replacer>>

scheduler_vars == <<request_queue, requests, worker, scheduler, executed, fired>>

\* what the buffer pool calls leave alone: callers' guards, the DiskManager
\* caller's buffer and the scheduler's channel (a pool call waits for its own
\* requests, so the channel is empty again when the call returns)
log_vars == <<log_io, log_written>>

ext_vars == <<latch, guards, buf, log_vars, scheduler_vars>>

Frames == 0..(pool_size - 1)

\* ------------------------------------------------------------------ Page
PageNew == [data |-> 0, page_id |-> NoPage, pin_count |-> 0, is_dirty |-> FALSE]

set_page_id(page, page_id) == [page EXCEPT !.page_id = page_id]

\* variant: the pin is not counted
pin_NoCount(page) == page

pin(page) == [page EXCEPT !.pin_count = @ + 1]

unpin(page) == [page EXCEPT !.pin_count = @ - 1]

set_dirty(page, is_dirty) == [page EXCEPT !.is_dirty = is_dirty]

\* The LSN field of the byte buffer.  A byte has the values 0..MaxByte and
\* an Lsn is size_of::<Lsn>() = 8 of them; bytes are numbered from 0 as in
\* the code, the sequences that hold them from 1.
OFFSET_LSN == 4

SizeOfLsn == 8

ByteBase == MaxByte + 1

RECURSIVE Pow(_, _)
Pow(b, n) == IF n = 0 THEN 1 ELSE b * Pow(b, n - 1)

LsnMax == Pow(ByteBase, SizeOfLsn) - 1

\* lsn.to_ne_bytes(), least significant byte first
to_ne_bytes(lsn) ==
    [i \in 1..SizeOfLsn |-> (lsn \div Pow(ByteBase, i - 1)) % ByteBase]

RECURSIVE from_ne_bytes_upto(_, _)
from_ne_bytes_upto(bytes, n) ==
    IF n = 0 THEN 0
    ELSE bytes[n] * Pow(ByteBase, n - 1) + from_ne_bytes_upto(bytes, n - 1)

\* Lsn::from_ne_bytes(bytes)
from_ne_bytes(bytes) == from_ne_bytes_upto(bytes, SizeOfLsn)

\* inner.data[OFFSET_LSN..OFFSET_LSN + size_of::<Lsn>()]
lsn_slice(data) == SubSeq(data, OFFSET_LSN + 1, OFFSET_LSN + SizeOfLsn)

get_lsn(page) == from_ne_bytes(lsn_slice(page.data))

\* variant: the field is written at the start of the buffer
set_lsn_AtPageStart(page, lsn) ==
    [page EXCEPT !.data =
        [i \in 1..Len(@) |->
            IF i \in 1..SizeOfLsn THEN to_ne_bytes(lsn)[i] ELSE @[i]]]

\* copy_from_slice(&lsn_bytes) into the slice
set_lsn(page, lsn) ==
    [page EXCEPT !.data =
        [i \in 1..Len(@) |->
            IF i \in (OFFSET_LSN + 1)..(OFFSET_LSN + SizeOfLsn)
            THEN to_ne_bytes(lsn)[i - OFFSET_LSN] ELSE @[i]]]

\* ---------------------------------------------------------- Disk manager
\* The file holds whole pages; a write past the end leaves a zero hole.
RECURSIVE Zeros(_)
Zeros(n) == IF n <= 0 THEN <<>> ELSE <<0>> \o Zeros(n - 1)

\* variant: the seek lands one page too far
write_page_OffByOne(file, page_id, data) ==
    IF page_id + 1 < Len(file)
    THEN [file EXCEPT ![page_id + 2] = data]
    ELSE file \o Zeros(page_id + 1 - Len(file)) \o <<data>>

write_page(file, page_id, data) ==
    IF page_id < Len(file)
    THEN [file EXCEPT ![page_id + 1] = data]
    ELSE file \o Zeros(page_id - Len(file)) \o <<data>>

\* offset > file length is fatal; a read at or inside the end is zero padded
read_page_panics(file, page_id) == page_id > Len(file)

read_page(file, page_id) ==
    IF page_id < Len(file) THEN file[page_id + 1] ELSE 0

\* The log file.  DiskManager::new opens an existing log file with
\* read + append + write; when that fails it creates the file with
\* create + read + write, without append.  A handle in append mode writes at
\* the end of the file whatever its cursor is; a handle without writes at its
\* cursor, which read_log moves.
LogBytes == {1, 2}

LogData == UNION {[1..n -> LogBytes] : n \in 0..MaxLogData}

DiskManagerNewLog(existed) ==
    /\ log_io = [file |-> <<>>, cursor |-> 0, append |-> existed]
    /\ log_written = <<>>

\* log_io.write_all(log_data), nothing at all for an empty argument
write_log(io, log_data) ==
    IF log_data = <<>> THEN io
    ELSE IF io.append
    THEN [io EXCEPT !.file = @ \o log_data,
                    !.cursor = Len(io.file) + Len(log_data)]
    ELSE [io EXCEPT !.file = SubSeq(@, 1, io.cursor) \o log_data
                             \o SubSeq(@, io.cursor + Len(log_data) + 1, Len(@)),
                    !.cursor = @ + Len(log_data)]

\* offset >= file length
read_log_at_end(io, offset) == offset >= Len(io.file)

\* the bytes log_io.read(log_data) delivers after the seek to offset
read_log_count(io, len, offset) ==
    IF Len(io.file) - offset < len THEN Len(io.file) - offset ELSE len

\* the buffer after read_log: the bytes read, the rest filled with 0
read_log(io, len, offset) ==
    SubSeq(io.file, offset + 1, offset + read_log_count(io, len, offset))
    \o Zeros(len - read_log_count(io, len, offset))

\* -------------------------------------------------------- LRU-K replacer
EmptyMap == [x \in {} |-> 0]

LRUKNodeNew(k) == [history |-> <<>>, k |-> k, is_evictable |-> TRUE]

LRUKReplacerNew(num_frames, k) ==
    [node_store |-> EmptyMap, current_timestamp |-> 0, current_size |-> 0,
     replacer_size |-> num_frames, k |-> k]

\* Distance::Num(v) / Distance::Inf(v)
backward_k_distance(node) ==
    IF Len(node.history) < node.k
    THEN [inf |-> TRUE, v |-> UsizeMax - Head(node.history)]
    ELSE [inf |-> FALSE, v |-> node.history[Len(node.history)] - Head(node.history)]

\* derived Ord: Num < Inf, then by payload
DistanceGreater(a, b) ==
    IF a.inf # b.inf THEN a.inf ELSE a.v > b.v

Tracked(r) == DOMAIN r.node_store

Evictable(r) == {f \in Tracked(r) : r.node_store[f].is_evictable}

\* variant: the loop does not skip nodes that are not evictable
EvictCandidates_IgnoringFlag(r) ==
    LET cand == {f \in Tracked(r) :
                    DistanceGreater(backward_k_distance(r.node_store[f]),
                                    [inf |-> FALSE, v |-> 0])}
    IN {f \in cand : \A g \in cand :
            ~DistanceGreater(backward_k_distance(r.node_store[g]),
                             backward_k_distance(r.node_store[f]))}

\* The frames evict() can return: the loop keeps the first node whose
\* distance is strictly greater than the running maximum, which starts at
\* Num(0); the map's iteration order decides between equal maxima.
EvictCandidates(r) ==
    LET cand == {f \in Evictable(r) :
                    DistanceGreater(backward_k_distance(r.node_store[f]),
                                    [inf |-> FALSE, v |-> 0])}
    IN {f \in cand : \A g \in cand :
            ~DistanceGreater(backward_k_distance(r.node_store[g]),
                             backward_k_distance(r.node_store[f]))}

RemoveNode(store, f) == [g \in (DOMAIN store) \ {f} |-> store[g]]

\* variant: the victim's node is removed but the size is left alone
evict_KeepsSize(r, f) ==
    [r EXCEPT !.node_store = RemoveNode(@, f)]

\* evict() when the loop selected frame f
evict(r, f) ==
    [r EXCEPT !.node_store = RemoveNode(@, f), !.current_size = @ - 1]

record_access_panics(r, frame_id) ==
    frame_id \notin Tracked(r) /\ r.current_size >= r.replacer_size

\* variant: the history is never trimmed
record_access_NoTrim(r, frame_id) ==
    LET ts == r.current_timestamp
        r1 == [r EXCEPT !.current_timestamp = @ + 1]
    IN IF frame_id \in Tracked(r)
       THEN [r1 EXCEPT !.node_store[frame_id].history = Append(@, ts)]
       ELSE IF r.current_size >= r.replacer_size
            THEN r1
            ELSE [r1 EXCEPT
                    !.node_store = (frame_id :> [LRUKNodeNew(r.k) EXCEPT !.history = <<ts>>]) @@ @,
                    !.current_size = @ + 1]

record_access(r, frame_id) ==
    LET ts == r.current_timestamp
        r1 == [r EXCEPT !.current_timestamp = @ + 1]
    IN IF frame_id \in Tracked(r)
       THEN LET h == Append(r.node_store[frame_id].history, ts)
                h2 == IF Len(h) > r.k THEN Tail(h) ELSE h
            IN [r1 EXCEPT !.node_store[frame_id].history = h2]
       ELSE IF r.current_size >= r.replacer_size
            THEN r1
            ELSE [r1 EXCEPT
                    !.node_store = (frame_id :> [LRUKNodeNew(r.k) EXCEPT !.history = <<ts>>]) @@ @,
                    !.current_size = @ + 1]

set_evictable_panics(r, frame_id) == frame_id \notin Tracked(r)

\* variant: the size is adjusted without looking at the flag the node has
set_evictable_Recount(r, frame_id, flag) ==
    IF frame_id \notin Tracked(r) THEN r
    ELSE [r EXCEPT !.node_store[frame_id].is_evictable = flag,
                   !.current_size = IF flag THEN @ + 1 ELSE @ - 1]

set_evictable(r, frame_id, flag) ==
    IF frame_id \notin Tracked(r) THEN r
    ELSE IF r.node_store[frame_id].is_evictable = flag THEN r
    ELSE [r EXCEPT !.node_store[frame_id].is_evictable = flag,
                   !.current_size = IF flag THEN @ + 1 ELSE @ - 1]

remove_panics(r, frame_id) ==
    frame_id \in Tracked(r) /\ ~r.node_store[frame_id].is_evictable

\* variant: the size is lowered but the node stays in the map
remove_KeepsHistory(r, frame_id) ==
    IF frame_id \notin Tracked(r) \/ remove_panics(r, frame_id) THEN r
    ELSE [r EXCEPT !.current_size = @ - 1]

remove(r, frame_id) ==
    IF frame_id \notin Tracked(r) \/ remove_panics(r, frame_id) THEN r
    ELSE [r EXCEPT !.node_store = RemoveNode(@, frame_id), !.current_size = @ - 1]

size(r) == r.current_size

\* -------------------------------------------------------- Disk scheduler
NoRequest == 0        \* Option<DiskRequest>::None, the shutdown sentinel

\* variant: the channel hands out the message sent last
recv_Newest(queue) ==
    [msg |-> queue[Len(queue)], rest |-> SubSeq(queue, 1, Len(queue) - 1)]

\* rx.recv() on a non-empty channel: the oldest message
recv(queue) == [msg |-> Head(queue), rest |-> Tail(queue)]

\* DiskScheduler::new: an empty channel and a worker waiting in recv()
DiskSchedulerNew ==
    /\ request_queue = <<>>
    /\ requests = <<>>
    /\ worker = [pc |-> "recv", r |-> NoRequest]
    /\ scheduler = "live"
    /\ executed = <<>>
    /\ fired = <<>>

\* ------------------------------------------------------------ Page latch
\* Page is Arc<RwLock<PageInner>>: one lock over bytes, page id, pin count
\* and dirty flag
Unlatched == [readers |-> 0, writer |-> FALSE]

\* self.0.read() has to wait: a caller keeps a write guard on the page
ReadBlocked(frame_id) == latch[frame_id].writer

\* self.0.write() has to wait: a caller keeps a guard of either kind
WriteBlocked(frame_id) ==
    latch[frame_id].writer \/ latch[frame_id].readers > 0

\* ---------------------------------------------------- Buffer pool manager
Call(op, ret, reqs) == [op |-> op, ret |-> ret, reqs |-> reqs]

\* BufferPoolManager::new(pool_size, disk_manager, replacer_k)
BufferPoolManagerNew(n, replacer_k) ==
    /\ pool_size = n
    /\ next_page_id = 0
    /\ pages = [f \in 0..(n - 1) |-> PageNew]
    /\ page_table = EmptyMap
    /\ replacer = LRUKReplacerNew(replacer_k, LRUK_REPLACER_K)
    /\ free_list = [i \in 1..n |-> n - i]

\* a fresh pool over an empty data file
InitPool ==
    /\ \E n \in 1..MaxPoolSize, replacer_k \in 1..MaxReplacerK :
            BufferPoolManagerNew(n, replacer_k)
    /\ disk = <<>>
    /\ status = "ok"
    /\ last = Call("new", "unit", <<>>)
    /\ unpinned_dirty = [p \in PageIds |-> {}]
    /\ flushed = [p \in PageIds |-> {}]
    /\ locked = {}
    /\ latch = [f \in Frames |-> Unlatched]
    /\ guards = {}
    /\ buf = 0
    /\ DiskManagerNewLog(FALSE)
    /\ DiskSchedulerNew

Init == InitPool /\ observe = {}

InitUnpinned == InitPool /\ observe = {"unpin_page"}

InitFlushed == InitPool /\ observe = {"flush_page"}

Resident(p) == p \in DOMAIN page_table

\* variant: the counter is read without being advanced
allocate_page_NoAdvance(n) == n

\* the counter after allocate_page's fetch_add; the call returns the old value
allocate_page(n) == n + 1

\* The frame-acquisition prefix shared by new_page and fetch_page: the free
\* list first, then the replacer, with the victim's write-back and the
\* removal of its page-table entry.  One outcome per frame evict() can pick.
\* The eviction sits in the else branch of `if let .. = free_list.lock()..`:
\* in the editions before 2024 the guard in an `if let` scrutinee lives to
\* the end of the whole if/else chain, so the wait for the write-back
\* happens with the free-list mutex held.
AcquireFrame ==
    IF Len(free_list) > 0
    THEN {[frame |-> free_list[Len(free_list)],
           free_list |-> SubSeq(free_list, 1, Len(free_list) - 1),
           replacer |-> replacer, page_table |-> page_table,
           disk |-> disk, reqs |-> <<>>, panic |-> FALSE, locked |-> {},
           blocked |-> IF WriteBlocked(free_list[Len(free_list)])
                       THEN "set_page_id" ELSE "no"]}
    ELSE IF EvictCandidates(replacer) = {}
    THEN {[frame |-> NoFrame, free_list |-> free_list, replacer |-> replacer,
           page_table |-> page_table, disk |-> disk, reqs |-> <<>>,
           panic |-> FALSE, locked |-> {}, blocked |-> "no"]}
    ELSE {LET page == pages[f]
              old == page.page_id
          IN IF ReadBlocked(f)
             THEN \* page.is_dirty() waits for the page's lock, the frame
                  \* is already out of the replacer
                  [frame |-> f, free_list |-> free_list,
                   replacer |-> evict(replacer, f), page_table |-> page_table,
                   disk |-> disk, reqs |-> <<>>, panic |-> FALSE,
                   locked |-> {}, blocked |-> "is_dirty"]
             ELSE [frame |-> f, free_list |-> free_list,
                   replacer |-> evict(replacer, f),
                   page_table |-> IF old = NoPage THEN page_table
                                  ELSE RemoveNode(page_table, old),
                   disk |-> IF page.is_dirty /\ old # NoPage
                            THEN write_page(disk, old, page.data) ELSE disk,
                   reqs |-> IF page.is_dirty THEN <<<<"Write", old>>>> ELSE <<>>,
                   panic |-> old = NoPage,
                   locked |-> IF page.is_dirty THEN {"free_list"} ELSE {},
                   blocked |-> IF old # NoPage /\ WriteBlocked(f)
                               THEN "set_page_id" ELSE "no"]
          : f \in EvictCandidates(replacer)}

new_page ==
    /\ status = "ok"
    /\ UNCHANGED ext_vars
    /\ next_page_id <= MaxPageId
    /\ replacer.current_timestamp < MaxTs
    /\ \E a \in AcquireFrame :
        /\ free_list' = a.free_list
        /\ disk' = a.disk
        /\ locked' = a.locked
        /\ UNCHANGED <<pool_size, observe, unpinned_dirty, flushed>>
        /\ IF a.frame = NoFrame
           THEN /\ UNCHANGED <<next_page_id, pages, page_table, replacer, status>>
                /\ last' = Call("new_page", "None", a.reqs)
           ELSE IF a.blocked # "no"
           THEN \* the call waits for a guard a caller keeps on the page
                /\ next_page_id' = IF a.blocked = "set_page_id"
                                   THEN allocate_page(next_page_id)
                                   ELSE next_page_id
                /\ UNCHANGED pages
                /\ page_table' = a.page_table
                /\ replacer' = a.replacer
                /\ status' = "hang"
                /\ last' = Call("new_page", "hang", a.reqs)
           ELSE IF a.panic
           THEN /\ UNCHANGED <<next_page_id, pages>>
                /\ page_table' = a.page_table
                /\ replacer' = a.replacer
                /\ status' = "panic"
                /\ last' = Call("new_page", "panic", a.reqs)
           ELSE LET page_id == next_page_id
                    r1 == record_access(a.replacer, a.frame)
                    fatal == record_access_panics(a.replacer, a.frame)
                           \/ set_evictable_panics(r1, a.frame)
                IN /\ next_page_id' = allocate_page(next_page_id)
                   /\ pages' = [pages EXCEPT ![a.frame] = pin(set_page_id(@, page_id))]
                   /\ page_table' = (page_id :> a.frame) @@ a.page_table
                   /\ replacer' = IF fatal THEN r1 ELSE set_evictable(r1, a.frame, FALSE)
                   /\ status' = IF fatal THEN "panic" ELSE "ok"
                   /\ last' = Call("new_page", IF fatal THEN "panic" ELSE "Some", a.reqs)

fetch_page(page_id) ==
    /\ status = "ok"
    /\ UNCHANGED ext_vars
    /\ replacer.current_timestamp < MaxTs
    /\ UNCHANGED <<pool_size, next_page_id, observe, unpinned_dirty, flushed>>
    /\ IF Resident(page_id)
       THEN LET frame_id == page_table[page_id]
                fatal == record_access_panics(replacer, frame_id)
            IN /\ pages[frame_id].pin_count < MaxPin
               /\ locked' = {}
               /\ UNCHANGED <<page_table, free_list, disk>>
               /\ IF WriteBlocked(frame_id)
                  THEN \* page.pin() waits for a guard a caller keeps
                       /\ UNCHANGED <<pages, replacer>>
                       /\ status' = "hang"
                       /\ last' = Call("fetch_page", "hang", <<>>)
                  ELSE /\ pages' = [pages EXCEPT ![frame_id] = pin(@)]
                       /\ replacer' = record_access(replacer, frame_id)
                       /\ status' = IF fatal THEN "panic" ELSE "ok"
                       /\ last' = Call("fetch_page", IF fatal THEN "panic" ELSE "Some", <<>>)
       ELSE \E a \in AcquireFrame :
            /\ free_list' = a.free_list
            /\ disk' = a.disk
            /\ locked' = a.locked
            /\ IF a.frame = NoFrame
               THEN /\ UNCHANGED <<pages, page_table, replacer, status>>
                    /\ last' = Call("fetch_page", "None", a.reqs)
               ELSE IF a.blocked # "no"
               THEN /\ UNCHANGED pages
                    /\ page_table' = a.page_table
                    /\ replacer' = a.replacer
                    /\ status' = "hang"
                    /\ last' = Call("fetch_page", "hang", a.reqs)
               ELSE IF a.panic
               THEN /\ UNCHANGED pages
                    /\ page_table' = a.page_table
                    /\ replacer' = a.replacer
                    /\ status' = "panic"
                    /\ last' = Call("fetch_page", "panic", a.reqs)
               ELSE IF read_page_panics(a.disk, page_id)
               THEN \* the worker dies in read_page, the completion signal is
                    \* dropped and blocking_recv().unwrap() aborts the call
                    /\ pages' = [pages EXCEPT ![a.frame] = pin(set_page_id(@, page_id))]
                    /\ page_table' = a.page_table
                    /\ replacer' = a.replacer
                    /\ status' = "panic"
                    /\ last' = Call("fetch_page", "panic", Append(a.reqs, <<"Read", page_id>>))
               ELSE LET r1 == record_access(a.replacer, a.frame)
                        fatal == record_access_panics(a.replacer, a.frame)
                               \/ set_evictable_panics(r1, a.frame)
                    IN /\ pages' = [pages EXCEPT ![a.frame] =
                                       [pin(set_page_id(@, page_id)) EXCEPT
                                           !.data = read_page(a.disk, page_id)]]
                       /\ page_table' = (page_id :> a.frame) @@ a.page_table
                       /\ replacer' = IF fatal THEN r1
                                      ELSE set_evictable(r1, a.frame, FALSE)
                       /\ status' = IF fatal THEN "panic" ELSE "ok"
                       /\ last' = Call("fetch_page", IF fatal THEN "panic" ELSE "Some", Append(a.reqs, <<"Read", page_id>>))

\* variant: the pin count is not looked at before it is decremented
unpin_page_Unchecked(page_id, is_dirty) ==
    /\ status = "ok"
    /\ UNCHANGED ext_vars
    /\ locked' = {}
    /\ UNCHANGED <<pool_size, next_page_id, page_table, free_list, disk, observe,
                   flushed, unpinned_dirty, status>>
    /\ IF Resident(page_id)
       THEN LET frame_id == page_table[page_id]
                page2 == unpin(set_dirty(pages[frame_id], is_dirty))
            IN /\ pages' = [pages EXCEPT ![frame_id] = page2]
               /\ replacer' = IF page2.pin_count = 0
                              THEN set_evictable(replacer, frame_id, TRUE)
                              ELSE replacer
               /\ last' = Call("unpin_page", "true", <<>>)
       ELSE /\ UNCHANGED <<pages, replacer>>
            /\ last' = Call("unpin_page", "false", <<>>)

unpin_page(page_id, is_dirty) ==
    /\ status = "ok"
    /\ UNCHANGED ext_vars
    /\ locked' = {}
    /\ UNCHANGED <<pool_size, next_page_id, page_table, free_list, disk, observe, flushed>>
    /\ IF Resident(page_id)
       THEN LET frame_id == page_table[page_id]
                page == pages[frame_id]
            IN IF ReadBlocked(frame_id)
                  \/ (page.pin_count > 0 /\ WriteBlocked(frame_id))
               THEN \* get_pin_count() or set_dirty() waits for a guard a
                    \* caller keeps on the page
                    /\ UNCHANGED <<pages, replacer, unpinned_dirty>>
                    /\ status' = "hang"
                    /\ last' = Call("unpin_page", "hang", <<>>)
               ELSE IF page.pin_count <= 0
               THEN /\ UNCHANGED <<pages, replacer, status, unpinned_dirty>>
                    /\ last' = Call("unpin_page", "false", <<>>)
               ELSE LET page2 == unpin(set_dirty(page, is_dirty))
                        fatal == page2.pin_count = 0
                                 /\ set_evictable_panics(replacer, frame_id)
                    IN /\ pages' = [pages EXCEPT ![frame_id] = page2]
                       /\ replacer' = IF page2.pin_count = 0
                                      THEN set_evictable(replacer, frame_id, TRUE)
                                      ELSE replacer
                       /\ status' = IF fatal THEN "panic" ELSE "ok"
                       /\ unpinned_dirty' =
                              IF is_dirty /\ ~fatal /\ "unpin_page" \in observe
                              THEN [unpinned_dirty EXCEPT ![page_id] = {page.data}]
                              ELSE unpinned_dirty
                       /\ last' = Call("unpin_page", IF fatal THEN "panic" ELSE "true", <<>>)
       ELSE /\ UNCHANGED <<pages, replacer, status, unpinned_dirty>>
            /\ last' = Call("unpin_page", "false", <<>>)

flush_page(page_id) ==
    /\ status = "ok"
    /\ UNCHANGED ext_vars
    \* the guard taken in the `if let` is alive in its whole body, the wait
    \* for the write included
    /\ locked' = IF Resident(page_id) THEN {"page_table"} ELSE {}
    /\ UNCHANGED <<bpm_vars, observe, unpinned_dirty>>
    /\ IF Resident(page_id)
       THEN LET frame_id == page_table[page_id]
                page == pages[frame_id]
            IN IF ReadBlocked(frame_id)
               THEN \* the worker's get_page_id() waits for the write guard
                    \* a caller keeps, the call waits for the worker
                    /\ status' = "hang"
                    /\ UNCHANGED <<disk, flushed>>
                    /\ last' = Call("flush_page", "hang", <<<<"Write", page.page_id>>>>)
               ELSE IF page.page_id = NoPage
               THEN /\ status' = "panic"
                    /\ UNCHANGED <<disk, flushed>>
                    /\ last' = Call("flush_page", "panic", <<<<"Write", NoPage>>>>)
               ELSE /\ disk' = write_page(disk, page.page_id, page.data)
                    /\ flushed' = IF "flush_page" \in observe
                                  THEN [flushed EXCEPT ![page_id] = {page.data}]
                                  ELSE flushed
                    /\ UNCHANGED status
                    /\ last' = Call("flush_page", "true", <<<<"Write", page.page_id>>>>)
       ELSE /\ UNCHANGED <<disk, status, flushed>>
            /\ last' = Call("flush_page", "false", <<>>)

\* the loop of flush_all_pages from frame f on: every dirty page is written
\* and waited for, in frame order
RECURSIVE FlushFrom(_, _, _)
FlushFrom(f, file, reqs) ==
    IF f >= pool_size THEN [disk |-> file, reqs |-> reqs, panic |-> FALSE]
    ELSE IF ~pages[f].is_dirty THEN FlushFrom(f + 1, file, reqs)
    ELSE IF pages[f].page_id = NoPage
         THEN [disk |-> file, reqs |-> Append(reqs, <<"Write", NoPage>>),
               panic |-> TRUE]
         ELSE FlushFrom(f + 1, write_page(file, pages[f].page_id, pages[f].data),
                        Append(reqs, <<"Write", pages[f].page_id>>))

flush_all_pages ==
    /\ status = "ok"
    /\ UNCHANGED ext_vars
    /\ locked' = {}
    /\ UNCHANGED <<bpm_vars, observe, unpinned_dirty, flushed>>
    /\ LET res == FlushFrom(0, disk, <<>>)
       IN /\ disk' = res.disk
          /\ status' = IF res.panic THEN "panic" ELSE "ok"
          /\ last' = Call("flush_all_pages", IF res.panic THEN "panic" ELSE "unit", res.reqs)

\* variant: the pin count is not looked at before the page is removed
delete_page_Unchecked(page_id) ==
    /\ UNCHANGED <<bpm_vars, disk, observe, unpinned_dirty, flushed>>
    /\ status = "ok"
    /\ UNCHANGED ext_vars
    /\ locked' = {}
    /\ IF Resident(page_id)
       THEN \E outcome \in {"panic", "hang"} :
               /\ status' = outcome
               /\ last' = Call("delete_page", outcome, <<>>)
       ELSE /\ UNCHANGED status
            /\ last' = Call("delete_page", "true", <<>>)

\* On a resident unpinned page the body locks page_table again while the
\* guard taken in the `if let` is still alive; std::sync::Mutex::lock never
\* returns then: it blocks for ever or panics.
delete_page(page_id) ==
    /\ UNCHANGED <<bpm_vars, disk, observe, unpinned_dirty, flushed>>
    /\ status = "ok"
    /\ UNCHANGED ext_vars
    /\ locked' = {}
    /\ IF Resident(page_id)
       THEN LET frame_id == page_table[page_id]
            IN IF pages[frame_id].pin_count > 0
               THEN /\ UNCHANGED status
                    /\ last' = Call("delete_page", "false", <<>>)
               ELSE \E outcome \in {"panic", "hang"} :
                    /\ status' = outcome
                    /\ last' = Call("delete_page", outcome, <<>>)
       ELSE /\ UNCHANGED status
            /\ last' = Call("delete_page", "true", <<>>)

\* A holder of a pinned page overwrites its bytes through get_mut_data.
get_mut_data(frame_id, data) ==
    /\ status = "ok"
    /\ UNCHANGED ext_vars
    /\ locked' = {}
    /\ pages[frame_id].pin_count > 0
    /\ ~WriteBlocked(frame_id)
    /\ pages[frame_id].data # data
    /\ pages' = [pages EXCEPT ![frame_id].data = data]
    /\ LET page_id == pages[frame_id].page_id
       IN /\ unpinned_dirty' = IF page_id \in PageIds
                               THEN [unpinned_dirty EXCEPT ![page_id] = {}]
                               ELSE unpinned_dirty
          /\ flushed' = IF page_id \in PageIds
                        THEN [flushed EXCEPT ![page_id] = {}]
                        ELSE flushed
          /\ last' = Call("get_mut_data", "unit", <<>>)
    /\ UNCHANGED <<pool_size, next_page_id, page_table, free_list, replacer,
                   disk, status, observe>>

Next ==
    \/ new_page
    \* callers fetch the page ids new_page handed out
    \/ \E page_id \in PageIds : page_id < next_page_id /\ fetch_page(page_id)
    \/ \E page_id \in PageIds, is_dirty \in BOOLEAN : unpin_page(page_id, is_dirty)
    \/ \E page_id \in PageIds : flush_page(page_id)
    \/ flush_all_pages
    \/ \E page_id \in PageIds : delete_page(page_id)
    \/ \E frame_id \in Frames, data \in 1..MaxData : get_mut_data(frame_id, data)

Spec == Init /\ [][Next]_vars

SpecUnpinned == InitUnpinned /\ [][Next]_vars

SpecFlushed == InitFlushed /\ [][Next]_vars

----------------------------------------------------------------------------
\* Callers that keep the guards Page hands out.  Page is one RwLock around
\* data, page_id, pin_count and is_dirty: get_data() returns the read guard
\* and get_mut_data() the write guard of that lock.

latch_frame == <<bpm_vars, disk, status, observe, unpinned_dirty,
                 flushed, locked, guards, buf, log_vars, scheduler_vars>>

\* let data = page.get_data();     the caller keeps the read guard
get_data_guard(frame_id) ==
    /\ status = "ok"
    /\ pages[frame_id].pin_count > 0
    /\ ~ReadBlocked(frame_id)
    /\ latch[frame_id].readers < MaxReaders
    /\ latch' = [latch EXCEPT ![frame_id].readers = @ + 1]
    /\ last' = Call("get_data", "RwLockReadGuard", <<>>)
    /\ UNCHANGED latch_frame

\* let mut data = page.get_mut_data();     the caller keeps the write guard
get_mut_data_guard(frame_id) ==
    /\ status = "ok"
    /\ pages[frame_id].pin_count > 0
    /\ ~WriteBlocked(frame_id)
    /\ latch' = [latch EXCEPT ![frame_id].writer = TRUE]
    /\ last' = Call("get_mut_data", "RwLockWriteGuard", <<>>)
    /\ UNCHANGED latch_frame

\* the guard goes out of scope
drop_data_guard(frame_id) ==
    /\ status = "ok"
    /\ latch[frame_id] # Unlatched
    /\ latch' = [latch EXCEPT ![frame_id] =
                    IF @.writer THEN Unlatched
                    ELSE [@ EXCEPT !.readers = @ - 1]]
    /\ last' = Call("drop", "unit", <<>>)
    /\ UNCHANGED latch_frame

NextLatch ==
    \/ new_page
    \/ \E page_id \in PageIds : page_id < next_page_id /\ fetch_page(page_id)
    \/ \E page_id \in PageIds, is_dirty \in BOOLEAN : unpin_page(page_id, is_dirty)
    \/ \E page_id \in PageIds : flush_page(page_id)
    \/ \E frame_id \in Frames, data \in 1..MaxData : get_mut_data(frame_id, data)
    \/ \E frame_id \in Frames : get_data_guard(frame_id)
    \/ \E frame_id \in Frames : get_mut_data_guard(frame_id)
    \/ \E frame_id \in Frames : drop_data_guard(frame_id)

SpecLatch == Init /\ [][NextLatch]_vars

----------------------------------------------------------------------------
\* Page guards (page_guard.rs).  A guard is the record BasicPageGuard holds:
\* the page (its frame here) and the guard's own dirty flag; kind tells the
\* wrapper, "Basic", "Read" or "Write".

GuardKinds == {"Basic", "Read", "Write"}

guard_frame == <<bpm_vars, disk, observe, unpinned_dirty, flushed, locked,
                 latch, buf, log_vars, scheduler_vars>>

\* Self { bpm, page, is_dirty: false }
BasicPageGuardNew(kind, frame_id) ==
    [kind |-> kind, frame |-> frame_id, is_dirty |-> FALSE]

\* a guard built over a page the pool handed out: no lock taken, no pin
PageGuard_new(kind, frame_id) ==
    /\ status = "ok"
    /\ pages[frame_id].pin_count > 0
    /\ Cardinality(guards) < MaxGuards
    /\ BasicPageGuardNew(kind, frame_id) \notin guards
    /\ guards' = guards \cup {BasicPageGuardNew(kind, frame_id)}
    /\ last' = Call("PageGuard::new", kind, <<>>)
    /\ UNCHANGED <<guard_frame, status>>

BasicPageGuard_new(frame_id) == PageGuard_new("Basic", frame_id)

\* Self { guard: BasicPageGuard::new(bpm, page) }
ReadPageGuard_new(frame_id) == PageGuard_new("Read", frame_id)

WritePageGuard_new(frame_id) == PageGuard_new("Write", frame_id)

\* self.is_dirty = true; then the page's write guard, through which the
\* caller stores data
PageGuard_get_data_mut(g, data) ==
    /\ status = "ok"
    /\ g \in guards
    /\ g.kind \in {"Basic", "Write"}
    /\ ~WriteBlocked(g.frame)
    /\ guards' = (guards \ {g}) \cup {[g EXCEPT !.is_dirty = TRUE]}
    /\ pages' = [pages EXCEPT ![g.frame].data = data]
    /\ last' = Call("get_data_mut", g.kind, <<>>)
    /\ UNCHANGED <<pool_size, next_page_id, page_table, free_list, replacer,
                   disk, status, observe, unpinned_dirty, flushed, locked,
                   latch, buf, log_vars, scheduler_vars>>

\* the three drop methods and the three Drop impls: unimplemented!()
PageGuard_drop(g) ==
    /\ status = "ok"
    /\ g \in guards
    /\ status' = "panic"
    /\ last' = Call("drop", "panic", <<>>)
    /\ UNCHANGED <<guard_frame, guards>>

\* new_page_guarded, fetch_page_basic, fetch_page_read, fetch_page_write:
\* unimplemented!()
fetch_page_guarded(kind, page_id) ==
    /\ status = "ok"
    /\ status' = "panic"
    /\ last' = Call("fetch_page_guarded", kind, <<>>)
    /\ UNCHANGED <<guard_frame, guards>>

fetch_page_basic(page_id) == fetch_page_guarded("Basic", page_id)

fetch_page_read(page_id) == fetch_page_guarded("Read", page_id)

fetch_page_write(page_id) == fetch_page_guarded("Write", page_id)

NextGuards ==
    \/ new_page
    \/ \E frame_id \in Frames : BasicPageGuard_new(frame_id)
    \/ \E frame_id \in Frames : ReadPageGuard_new(frame_id)
    \/ \E frame_id \in Frames : WritePageGuard_new(frame_id)
    \/ \E g \in guards, data \in 1..MaxData : PageGuard_get_data_mut(g, data)
    \/ \E g \in guards : PageGuard_drop(g)
    \/ \E page_id \in PageIds : fetch_page_basic(page_id)
    \/ \E page_id \in PageIds : fetch_page_read(page_id)
    \/ \E page_id \in PageIds : fetch_page_write(page_id)
    \/ \E frame_id \in Frames, data \in 1..MaxData : get_mut_data(frame_id, data)
    \/ \E frame_id \in Frames : get_data_guard(frame_id)
    \/ \E frame_id \in Frames : get_mut_data_guard(frame_id)
    \/ \E frame_id \in Frames : drop_data_guard(frame_id)

SpecGuards == Init /\ [][NextGuards]_vars

\* ------------------------------------------------- the replacer on its own
\* LRUKReplacer::new(num_frames, k) driven directly, as its unit test does;
\* no buffer pool is built around it.
InitReplacer ==
    /\ \E num_frames \in 1..MaxNumFrames, k \in 1..MaxReplacerK :
            replacer = LRUKReplacerNew(num_frames, k)
    /\ pool_size = 0
    /\ next_page_id = 0
    /\ pages = EmptyMap
    /\ page_table = EmptyMap
    /\ free_list = <<>>
    /\ disk = <<>>
    /\ status = "ok"
    /\ last = Call("new", "unit", <<>>)
    /\ observe = {}
    /\ unpinned_dirty = [p \in PageIds |-> {}]
    /\ flushed = [p \in PageIds |-> {}]
    /\ locked = {}
    /\ latch = EmptyMap
    /\ guards = {}
    /\ buf = 0
    /\ DiskManagerNewLog(FALSE)
    /\ DiskSchedulerNew

LRUKReplacer_evict ==
    /\ status = "ok"
    /\ UNCHANGED <<locked, ext_vars>>
    /\ UNCHANGED <<pool_size, next_page_id, pages, page_table, free_list, disk,
                   status, observe, unpinned_dirty, flushed>>
    /\ IF EvictCandidates(replacer) = {}
       THEN /\ UNCHANGED replacer
            /\ last' = Call("evict", "None", <<>>)
       ELSE \E f \in EvictCandidates(replacer) :
            /\ replacer' = evict(replacer, f)
            /\ last' = Call("evict", "Some", <<>>)

LRUKReplacer_record_access(frame_id) ==
    /\ status = "ok"
    /\ UNCHANGED <<locked, ext_vars>>
    /\ replacer.current_timestamp < MaxTs
    /\ UNCHANGED <<pool_size, next_page_id, pages, page_table, free_list, disk,
                   observe, unpinned_dirty, flushed>>
    /\ replacer' = record_access(replacer, frame_id)
    /\ IF record_access_panics(replacer, frame_id)
       THEN /\ status' = "panic"
            /\ last' = Call("record_access", "panic", <<>>)
       ELSE /\ UNCHANGED status
            /\ last' = Call("record_access", "unit", <<>>)

LRUKReplacer_set_evictable(frame_id, flag) ==
    /\ status = "ok"
    /\ UNCHANGED <<locked, ext_vars>>
    /\ UNCHANGED <<pool_size, next_page_id, pages, page_table, free_list, disk,
                   observe, unpinned_dirty, flushed>>
    /\ replacer' = set_evictable(replacer, frame_id, flag)
    /\ IF set_evictable_panics(replacer, frame_id)
       THEN /\ status' = "panic"
            /\ last' = Call("set_evictable", "panic", <<>>)
       ELSE /\ UNCHANGED status
            /\ last' = Call("set_evictable", "unit", <<>>)

LRUKReplacer_remove(frame_id) ==
    /\ status = "ok"
    /\ UNCHANGED <<locked, ext_vars>>
    /\ UNCHANGED <<pool_size, next_page_id, pages, page_table, free_list, disk,
                   observe, unpinned_dirty, flushed>>
    /\ replacer' = remove(replacer, frame_id)
    /\ IF remove_panics(replacer, frame_id)
       THEN /\ status' = "panic"
            /\ last' = Call("remove", "panic", <<>>)
       ELSE /\ UNCHANGED status
            /\ last' = Call("remove", "unit", <<>>)

NextReplacer ==
    \/ LRUKReplacer_evict
    \/ \E frame_id \in FrameIds : LRUKReplacer_record_access(frame_id)
    \/ \E frame_id \in FrameIds, flag \in BOOLEAN :
           LRUKReplacer_set_evictable(frame_id, flag)
    \/ \E frame_id \in FrameIds : LRUKReplacer_remove(frame_id)

SpecReplacer == InitReplacer /\ [][NextReplacer]_vars

\* ------------------------------------------- the disk scheduler on its own
\* DiskScheduler::new(disk_manager) over an empty data file, driven by
\* callers that schedule requests, wait for or drop their completion
\* receivers, and finally drop the scheduler.  Request ids number the
\* requests in the order schedule() sent them.
InitScheduler ==
    /\ DiskSchedulerNew
    /\ disk = <<>>
    /\ pool_size = 0
    /\ next_page_id = 0
    /\ pages = EmptyMap
    /\ page_table = EmptyMap
    /\ free_list = <<>>
    /\ replacer = LRUKReplacerNew(0, LRUK_REPLACER_K)
    /\ status = "ok"
    /\ last = Call("new", "unit", <<>>)
    /\ observe = {}
    /\ unpinned_dirty = [p \in PageIds |-> {}]
    /\ flushed = [p \in PageIds |-> {}]
    /\ locked = {}
    /\ latch = EmptyMap
    /\ guards = {}
    /\ buf = 0
    /\ DiskManagerNewLog(FALSE)

scheduler_frame == <<bpm_vars, status, observe, unpinned_dirty, flushed,
                     locked, latch, guards, buf, log_vars>>

WorkerDead == worker.pc \in {"panicked", "exited"}

\* schedule(r): request_queue.send(Some(r)).unwrap(); the send fails once the
\* worker is gone and has dropped the receiving end
schedule(kind, page_id, data) ==
    /\ scheduler = "live"
    /\ Len(requests) < MaxRequests
    /\ UNCHANGED <<scheduler_frame, disk, worker, scheduler, executed, fired>>
    /\ IF WorkerDead
       THEN /\ UNCHANGED <<request_queue, requests>>
            /\ last' = Call("schedule", "panic", <<>>)
       ELSE /\ requests' = Append(requests,
                   [kind |-> kind, page_id |-> page_id, data |-> data,
                    rx |-> "alive", sent |-> FALSE])
            /\ request_queue' = Append(request_queue, Len(requests) + 1)
            /\ last' = Call("schedule", "unit", <<<<kind, page_id>>>>)

\* the caller lets go of the receiving end of the completion signal
drop_receiver(r) ==
    /\ r \in DOMAIN requests
    /\ requests[r].rx = "alive"
    /\ requests' = [requests EXCEPT ![r].rx = "dropped"]
    /\ last' = Call("drop_receiver", "unit", <<>>)
    /\ UNCHANGED <<scheduler_frame, disk, request_queue, worker, scheduler,
                   executed, fired>>

\* rx.blocking_recv().unwrap(): returns once the signal was sent, fails once
\* the sending end is gone without having sent
blocking_recv(r) ==
    /\ r \in DOMAIN requests
    /\ requests[r].rx = "alive"
    /\ requests[r].sent \/ worker.pc = "panicked"
    /\ requests' = [requests EXCEPT
                       ![r].rx = IF requests[r].sent THEN "received" ELSE "failed"]
    /\ last' = Call("blocking_recv", IF requests[r].sent THEN "unit" ELSE "panic", <<>>)
    /\ UNCHANGED <<scheduler_frame, disk, request_queue, worker, scheduler,
                   executed, fired>>

\* while let Ok(r) = rx.recv(): take the next message, leave on the sentinel
start_worker_thread_recv ==
    /\ worker.pc = "recv"
    /\ request_queue # <<>>
    /\ request_queue' = recv(request_queue).rest
    /\ worker' = IF recv(request_queue).msg = NoRequest
                 THEN [pc |-> "exited", r |-> NoRequest]
                 ELSE [pc |-> "exec", r |-> recv(request_queue).msg]
    /\ UNCHANGED <<scheduler_frame, disk, requests, scheduler, executed, fired, last>>

\* the disk manager call of the request taken
start_worker_thread_execute ==
    /\ worker.pc = "exec"
    /\ LET req == requests[worker.r]
       IN IF req.kind = "Read" /\ read_page_panics(disk, req.page_id)
          THEN /\ worker' = [worker EXCEPT !.pc = "panicked"]
               /\ UNCHANGED <<disk, requests, executed>>
          ELSE /\ worker' = [worker EXCEPT !.pc = "send"]
               /\ executed' = Append(executed, worker.r)
               /\ IF req.kind = "Read"
                  THEN /\ requests' = [requests EXCEPT
                                          ![worker.r].data = read_page(disk, req.page_id)]
                       /\ UNCHANGED disk
                  ELSE /\ disk' = write_page(disk, req.page_id, req.data)
                       /\ UNCHANGED requests
    /\ UNCHANGED <<scheduler_frame, request_queue, scheduler, fired, last>>

\* callback.send(()).unwrap(): fails when the receiving end was dropped
start_worker_thread_send ==
    /\ worker.pc = "send"
    /\ IF requests[worker.r].rx = "dropped"
       THEN /\ worker' = [worker EXCEPT !.pc = "panicked"]
            /\ UNCHANGED <<requests, fired>>
       ELSE /\ worker' = [pc |-> "recv", r |-> NoRequest]
            /\ requests' = [requests EXCEPT ![worker.r].sent = TRUE]
            /\ fired' = Append(fired, worker.r)
    /\ UNCHANGED <<scheduler_frame, disk, request_queue, scheduler, executed, last>>

\* Drop: request_queue.send(None).unwrap()
DiskScheduler_drop_send ==
    /\ scheduler = "live"
    /\ IF WorkerDead
       THEN /\ scheduler' = "panic"
            /\ UNCHANGED request_queue
            /\ last' = Call("drop", "panic", <<>>)
       ELSE /\ scheduler' = "joining"
            /\ request_queue' = Append(request_queue, NoRequest)
            /\ last' = Call("drop", "joining", <<>>)
    /\ UNCHANGED <<scheduler_frame, disk, requests, worker, executed, fired>>

\* Drop: background_thread.take().unwrap().join().unwrap()
DiskScheduler_drop_join ==
    /\ scheduler = "joining"
    /\ WorkerDead
    /\ scheduler' = IF worker.pc = "exited" THEN "dropped" ELSE "panic"
    /\ last' = Call("drop", IF worker.pc = "exited" THEN "unit" ELSE "panic", <<>>)
    /\ UNCHANGED <<scheduler_frame, disk, request_queue, requests, worker,
                   executed, fired>>

start_worker_thread ==
    \/ start_worker_thread_recv
    \/ start_worker_thread_execute
    \/ start_worker_thread_send

NextScheduler ==
    \/ \E kind \in {"Read", "Write"}, page_id \in PageIds, data \in DataValues :
           /\ kind = "Read" => data = 0
           /\ schedule(kind, page_id, data)
    \/ \E r \in 1..MaxRequests : drop_receiver(r)
    \/ \E r \in 1..MaxRequests : blocking_recv(r)
    \/ start_worker_thread
    \/ DiskScheduler_drop_send
    \/ DiskScheduler_drop_join

SpecScheduler == InitScheduler /\ [][NextScheduler]_vars

\* the worker thread is scheduled again and again; so is the thread that
\* runs the scheduler's Drop once it has sent the sentinel
SpecSchedulerFair ==
    /\ SpecScheduler
    /\ WF_vars(start_worker_thread)
    /\ WF_vars(DiskScheduler_drop_join)

\* --------------------------------------------- the disk manager on its own
\* DiskManager::new on a fresh file, then write_page and read_page called
\* directly, as the read_write_page test does
InitDisk ==
    /\ disk = <<>>
    /\ buf = 0
    /\ DiskManagerNewLog(FALSE)
    /\ DiskSchedulerNew
    /\ pool_size = 0
    /\ next_page_id = 0
    /\ pages = EmptyMap
    /\ page_table = EmptyMap
    /\ free_list = <<>>
    /\ replacer = LRUKReplacerNew(0, LRUK_REPLACER_K)
    /\ status = "ok"
    /\ last = Call("new", "unit", <<>>)
    /\ observe = {}
    /\ unpinned_dirty = [p \in PageIds |-> {}]
    /\ flushed = [p \in PageIds |-> {}]
    /\ locked = {}
    /\ latch = EmptyMap
    /\ guards = {}

disk_frame == <<bpm_vars, observe, unpinned_dirty, flushed, locked, latch,
                guards, log_vars, scheduler_vars>>

DiskManager_write_page(page_id, page_data) ==
    /\ status = "ok"
    /\ disk' = write_page(disk, page_id, page_data)
    /\ last' = Call("write_page", "unit", <<<<"Write", page_id>>>>)
    /\ UNCHANGED <<disk_frame, buf, status>>

DiskManager_read_page(page_id) ==
    /\ status = "ok"
    /\ IF read_page_panics(disk, page_id)
       THEN /\ status' = "panic"
            /\ last' = Call("read_page", "panic", <<<<"Read", page_id>>>>)
            /\ UNCHANGED buf
       ELSE /\ buf' = read_page(disk, page_id)
            /\ last' = Call("read_page", "unit", <<<<"Read", page_id>>>>)
            /\ UNCHANGED status
    /\ UNCHANGED <<disk_frame, disk>>

NextDisk ==
    \/ \E page_id \in DiskPageIds, page_data \in DataValues :
           DiskManager_write_page(page_id, page_data)
    \/ \E page_id \in DiskPageIds : DiskManager_read_page(page_id)

SpecDisk == InitDisk /\ [][NextDisk]_vars

\* the log file of a disk manager on its own: the file existed (and was
\* empty) or did not exist when DiskManager::new ran
InitLog ==
    /\ \E existed \in BOOLEAN : DiskManagerNewLog(existed)
    /\ disk = <<>>
    /\ buf = <<>>
    /\ DiskSchedulerNew
    /\ pool_size = 0
    /\ next_page_id = 0
    /\ pages = EmptyMap
    /\ page_table = EmptyMap
    /\ free_list = <<>>
    /\ replacer = LRUKReplacerNew(0, LRUK_REPLACER_K)
    /\ status = "ok"
    /\ last = Call("new", "unit", <<>>)
    /\ observe = {}
    /\ unpinned_dirty = [p \in PageIds |-> {}]
    /\ flushed = [p \in PageIds |-> {}]
    /\ locked = {}
    /\ latch = EmptyMap
    /\ guards = {}

log_frame == <<bpm_vars, disk, status, observe, unpinned_dirty, flushed,
               locked, latch, guards, scheduler_vars>>

DiskManager_write_log(log_data) ==
    /\ status = "ok"
    /\ Len(log_written) + Len(log_data) <= MaxLogSize
    /\ log_io' = write_log(log_io, log_data)
    /\ log_written' = log_written \o log_data
    /\ last' = Call("write_log", "unit", <<>>)
    /\ UNCHANGED <<log_frame, buf>>

DiskManager_read_log(len, offset) ==
    /\ status = "ok"
    /\ IF read_log_at_end(log_io, offset)
       THEN /\ last' = Call("read_log", "false", <<>>)
            /\ UNCHANGED <<buf, log_io>>
       ELSE /\ buf' = read_log(log_io, len, offset)
            /\ log_io' = [log_io EXCEPT
                             !.cursor = offset + read_log_count(log_io, len, offset)]
            /\ last' = Call("read_log", "true", <<>>)
    /\ UNCHANGED <<log_frame, log_written>>

NextLog ==
    \/ \E log_data \in LogData : DiskManager_write_log(log_data)
    \/ \E len \in 1..MaxLogBuf, offset \in 0..MaxLogSize :
           DiskManager_read_log(len, offset)

SpecLog == InitLog /\ [][NextLog]_vars

----------------------------------------------------------------------------
\* One page on its own, its buffer byte by byte: set_lsn, get_lsn and a
\* caller that stores single bytes through get_mut_data.  The page is fresh
\* or holds page 0, pinned and dirty.

\* the Lsn values handed to set_lsn: zero, the first and the last byte of
\* the field on their own, all bytes together
LsnValues == {0, 1, Pow(ByteBase, SizeOfLsn - 1), LsnMax}

\* the bytes the caller stores to: the byte before the field, the first
\* byte of the field, the byte behind the field
ByteOffsets == {OFFSET_LSN - 1, OFFSET_LSN, OFFSET_LSN + SizeOfLsn}

InitLsn ==
    /\ pool_size = 1
    /\ \E fresh \in BOOLEAN :
          pages = (0 :> [data |-> Zeros(MaxPageBytes),
                         page_id |-> IF fresh THEN NoPage ELSE 0,
                         pin_count |-> IF fresh THEN 0 ELSE 1,
                         is_dirty |-> ~fresh])
    /\ next_page_id = 0
    /\ page_table = EmptyMap
    /\ free_list = <<>>
    /\ replacer = LRUKReplacerNew(0, LRUK_REPLACER_K)
    /\ disk = <<>>
    /\ buf = 0
    /\ DiskManagerNewLog(FALSE)
    /\ DiskSchedulerNew
    /\ status = "ok"
    /\ last = Call("new", "unit", <<>>)
    /\ observe = {}
    /\ unpinned_dirty = [p \in PageIds |-> {}]
    /\ flushed = [p \in PageIds |-> {}]
    /\ locked = {}
    /\ latch = (0 :> Unlatched)
    /\ guards = {}

lsn_frame == <<pool_size, next_page_id, page_table, free_list, replacer, disk,
               status, observe, unpinned_dirty, flushed, locked, latch, guards,
               log_vars, scheduler_vars>>

Page_set_lsn(lsn) ==
    /\ status = "ok"
    /\ pages' = [pages EXCEPT ![0] = set_lsn(@, lsn)]
    /\ last' = Call("set_lsn", "unit", <<>>)
    /\ UNCHANGED <<lsn_frame, buf>>

Page_get_lsn ==
    /\ status = "ok"
    /\ buf' = get_lsn(pages[0])
    /\ last' = Call("get_lsn", "Lsn", <<>>)
    /\ UNCHANGED <<lsn_frame, pages>>

\* page.get_mut_data()[offset] = byte
Page_store_byte(offset, byte) ==
    /\ status = "ok"
    /\ pages' = [pages EXCEPT ![0].data[offset + 1] = byte]
    /\ last' = Call("get_mut_data", "unit", <<>>)
    /\ UNCHANGED <<lsn_frame, buf>>

NextLsn ==
    \/ \E lsn \in LsnValues : Page_set_lsn(lsn)
    \/ Page_get_lsn
    \/ \E offset \in ByteOffsets, byte \in 0..MaxByte : Page_store_byte(offset, byte)

SpecLsn == InitLsn /\ [][NextLsn]_vars

\* ----------------------------------------------------------------- claims
\* the page a successful call handed out sits in this frame afterwards
FrameOf(page_id) == page_table[page_id]

\* every resident page is pinned and no frame is marked evictable: the
\* states reached while no page has been unpinned
NoPageUnpinned ==
    /\ Evictable(replacer) = {}
    /\ \A p \in DOMAIN page_table : pages[FrameOf(p)].pin_count >= 1

\* C1: a frame whose page has pin count > 0 is never the eviction victim of
\* new_page or fetch_page (the victim is the frame whose page id the call
\* replaces while the free list is empty).
C1_PinnedNeverVictim ==
    [][\A f \in Frames :
          (/\ last'.op \in {"new_page", "fetch_page"}
           /\ free_list = <<>>
           /\ pages'[f].page_id # pages[f].page_id)
          => pages[f].pin_count = 0]_vars

\* C2: bytes a page held when unpin_page(page_id, true) succeeded, and that
\* no holder overwrote since, are the bytes of every later successful
\* fetch_page(page_id), whatever evictions happened in between.
C2_UnpinnedDirtySurvives ==
    [][\A p \in PageIds :
          (fetch_page(p) /\ last'.ret = "Some" /\ unpinned_dirty[p] # {})
          => unpinned_dirty[p] = {pages'[page_table'[p]].data}]_vars

\* C3: when unpin_page(page_id, is_dirty) returns true the dirty flag becomes
\* (old flag OR is_dirty) and the pin count drops by exactly one.
C3_UnpinOrsDirty ==
    [][\A p \in PageIds, d \in BOOLEAN :
          (unpin_page(p, d) /\ last'.ret = "true")
          => /\ pages'[FrameOf(p)].is_dirty = (pages[FrameOf(p)].is_dirty \/ d)
             /\ pages'[FrameOf(p)].pin_count = pages[FrameOf(p)].pin_count - 1]_vars

\* the pool was filled by new_page calls and some of its pages were unpinned
\* once: every frame is resident, pinned at most once, evictable iff unpinned
FilledAndUnpinned ==
    /\ free_list = <<>>
    /\ \A f \in Frames :
          /\ pages[f].pin_count \in {0, 1}
          /\ f \in Tracked(replacer)
          /\ replacer.node_store[f].is_evictable = (pages[f].pin_count = 0)

\* C4: for any pool size and replacer_k, once the pool is full, a new_page or
\* a fetch_page of a non-resident page succeeds exactly when some page is
\* unpinned, and never fails fatally: m unpinned pages give m slots.
C4_UnpinnedPagesAreSlots ==
    [][\A p \in PageIds :
          (/\ FilledAndUnpinned
           /\ new_page \/ (fetch_page(p) /\ ~Resident(p)))
          => /\ status' = "ok"
             /\ (last'.ret = "Some") = (\E f \in Frames : pages[f].pin_count = 0)]_vars

\* C5: while no page has been unpinned, new_page succeeds as long as a frame
\* is free (N times from a fresh pool); once the pool is full, new_page and
\* fetch_page of a non-resident page return None, nothing fatal happens and
\* page table, free list, replacer, pages and next_page_id stay as they were.
C5_FullPinnedPoolRefuses ==
    [][/\ (new_page /\ NoPageUnpinned /\ Len(free_list) > 0)
          => /\ status' = "ok"
             /\ last'.ret = "Some"
             /\ Cardinality(DOMAIN page_table') = pool_size - Len(free_list')
             /\ Cardinality(DOMAIN page_table') = next_page_id'
       /\ \A p \in PageIds :
          (/\ NoPageUnpinned /\ Len(free_list) = 0
           /\ new_page \/ (fetch_page(p) /\ ~Resident(p)))
          => /\ status' = "ok"
             /\ last'.ret = "None"
             /\ last'.reqs = <<>>
             /\ UNCHANGED <<page_table, free_list, replacer, pages,
                            next_page_id, disk>>]_vars

C5_Witness ==
    /\ last.op \in {"new_page", "fetch_page"}
    /\ last.ret = "None"
    /\ NoPageUnpinned
    /\ free_list = <<>>
    /\ next_page_id = pool_size
    /\ Cardinality(DOMAIN page_table) = pool_size

\* C6: bytes a page held when flush_page(page_id) succeeded, and that no
\* holder overwrote since, are the bytes a later fetch_page(page_id) reads
\* back from disk after the page's frame was evicted.
C6_FlushedRoundTrip ==
    [][\A p \in PageIds :
          (/\ fetch_page(p) /\ ~Resident(p)
           /\ last'.ret = "Some"
           /\ flushed[p] # {})
          => flushed[p] = {pages'[page_table'[p]].data}]_vars

C6_Witness ==
    \E p \in DOMAIN page_table :
        /\ last.op = "fetch_page" /\ last.ret = "Some"
        /\ Len(last.reqs) > 0
        /\ last.reqs[Len(last.reqs)] = <<"Read", p>>
        /\ flushed[p] \subseteq 1..MaxData
        /\ flushed[p] = {pages[FrameOf(p)].data}

\* C7: delete_page on a resident page with pin count 0 returns true and
\* leaves the page out of the page table, its frame untracked by the
\* replacer and at the tail of the free list (the next frame handed out).
C7_DeleteUnpinnedFreesFrame ==
    [][\A p \in PageIds :
          (/\ delete_page(p) /\ Resident(p)
           /\ pages[FrameOf(p)].pin_count = 0)
          => /\ status' = "ok"
             /\ last'.ret = "true"
             /\ p \notin DOMAIN page_table'
             /\ FrameOf(p) \notin Tracked(replacer')
             /\ free_list' = Append(free_list, FrameOf(p))]_vars

\* C8: delete_page returns false on a resident pinned page and true on a
\* page that is not resident, and in both cases leaves page table, free
\* list, replacer, pin counts, dirty flags and page bytes as they were.
C8_DeleteOtherwiseNoOp ==
    [][\A p \in PageIds :
          (/\ delete_page(p)
           /\ ~(Resident(p) /\ pages[FrameOf(p)].pin_count = 0))
          => /\ status' = "ok"
             /\ last'.ret = (IF Resident(p) THEN "false" ELSE "true")
             /\ last'.reqs = <<>>
             /\ UNCHANGED <<page_table, free_list, replacer, pages, disk>>]_vars

C8_Witness ==
    /\ last.op = "delete_page"
    /\ last.ret = "false"
    /\ \E p \in DOMAIN page_table : pages[FrameOf(p)].pin_count > 0

\* C9: unpin_page returns false and leaves pin counts, dirty flags and the
\* replacer as they were when the page is not resident or its pin count is
\* already 0, for either is_dirty; no pin count is ever negative.
C9_UnpinUnpinnedNoOp ==
    /\ [](\A f \in Frames : pages[f].pin_count >= 0)
    /\ [][\A p \in PageIds, d \in BOOLEAN :
             (/\ unpin_page(p, d)
              /\ ~Resident(p) \/ pages[FrameOf(p)].pin_count = 0)
             => /\ status' = "ok"
                /\ last'.ret = "false"
                /\ UNCHANGED <<pages, replacer, page_table, free_list>>]_vars

C9_Witness ==
    /\ last.op = "unpin_page"
    /\ last.ret = "false"
    /\ \E p \in DOMAIN page_table :
          /\ pages[FrameOf(p)].pin_count = 0
          /\ pages[FrameOf(p)].is_dirty

\* C10: flush_page returns false and schedules nothing for a page that is
\* not resident; for a resident page it writes the page's bytes to disk
\* whether dirty or not, returns true, leaves the pin count alone and the
\* dirty flag false.
C10_FlushClearsDirty ==
    [][\A p \in PageIds :
          flush_page(p)
          => IF Resident(p)
             THEN /\ last'.ret = "true"
                  /\ last'.reqs = <<<<"Write", p>>>>
                  /\ read_page(disk', p) = pages[FrameOf(p)].data
                  /\ pages'[FrameOf(p)].pin_count = pages[FrameOf(p)].pin_count
                  /\ ~pages'[FrameOf(p)].is_dirty
             ELSE /\ last'.ret = "false"
                  /\ last'.reqs = <<>>
                  /\ disk' = disk]_vars

\* the state a page handed out by a successful call is left in: pinned once,
\* mapped to a frame holding it, that frame tracked as non-evictable with a
\* single recorded access
FreshlyPinned(page_id) ==
    /\ page_id \in DOMAIN page_table'
    /\ LET f == page_table'[page_id]
       IN /\ pages'[f].page_id = page_id
          /\ pages'[f].pin_count = 1
          /\ f \in Tracked(replacer')
          /\ ~replacer'.node_store[f].is_evictable
          /\ Len(replacer'.node_store[f].history) = 1

\* C11: the page returned by a successful new_page, or by a successful
\* fetch_page of a non-resident page, has pin count exactly 1, is mapped in
\* the page table to its frame, and that frame is non-evictable in the
\* replacer with one access recorded, free-list frame or evicted frame alike.
C11_FreshPagePinnedOnce ==
    [][/\ (new_page /\ last'.ret = "Some") => FreshlyPinned(next_page_id)
       /\ \A p \in PageIds :
             (fetch_page(p) /\ ~Resident(p) /\ last'.ret = "Some")
             => FreshlyPinned(p)]_vars

\* C12: the page returned by a successful new_page is reset: its bytes are
\* all zero and its dirty flag is false, also when its frame was taken from
\* a page that held data or was dirty.
C12_NewPageIsReset ==
    [][(new_page /\ last'.ret = "Some")
       => /\ pages'[page_table'[next_page_id]].data = 0
          /\ ~pages'[page_table'[next_page_id]].is_dirty]_vars

\* C13: the ids successful new_page calls return are 0, 1, 2, ... in that
\* order: the first is 0, each call returns the counter and advances it by
\* one, nothing else moves the counter (not an eviction, a delete_page or a
\* new_page that returns None), so no id is handed out twice.
C13_PageIdsIncrease ==
    /\ next_page_id = 0
    /\ [][/\ next_page_id' >= next_page_id
          /\ (next_page_id' # next_page_id) => new_page
          /\ (new_page /\ last'.ret = "None") => next_page_id' = next_page_id
          /\ (new_page /\ last'.ret = "Some")
             => /\ next_page_id' = next_page_id + 1
                /\ ~Resident(next_page_id)
                /\ \A f \in Frames : pages[f].page_id < next_page_id
                /\ next_page_id \in DOMAIN page_table'
                /\ pages'[page_table'[next_page_id]].page_id = next_page_id]_vars

C13_Witness ==
    /\ last.op = "new_page"
    /\ last.ret = "Some"
    /\ next_page_id = 2
    /\ DOMAIN page_table = {1}
    /\ pages[FrameOf(1)].page_id = 1

\* C14: BufferPoolManager::new(pool_size, disk_manager, replacer_k) leaves a
\* replacer whose K is replacer_k and whose capacity covers the pool_size
\* frames of the pool.
C14_ReplacerBuiltFromArguments ==
    \A n \in 1..MaxPoolSize, replacer_k \in 1..MaxReplacerK :
        BufferPoolManagerNew(n, replacer_k)
        => /\ replacer.k = replacer_k
           /\ replacer.replacer_size >= n

\* the frame an evict() step took out of the replacer, NoFrame if none
Evicted == IF Tracked(replacer) = Tracked(replacer')
           THEN NoFrame
           ELSE CHOOSE f \in Tracked(replacer) : f \notin Tracked(replacer')

\* the ranking in words: f is at least as evictable as g
Outranks(f, g) ==
    LET hf == replacer.node_store[f].history
        hg == replacer.node_store[g].history
        K == replacer.k
    IN IF Len(hf) < K
       THEN Len(hg) < K => Head(hf) <= Head(hg)
       ELSE /\ Len(hg) >= K
            /\ hf[Len(hf)] - Head(hf) >= hg[Len(hg)] - Head(hg)

\* C15: evict() returns an evictable frame of greatest backward-k-distance:
\* one with fewer than K accesses before any with K accesses; among those
\* with fewer than K the smallest earliest timestamp; among those with K the
\* largest gap between the most recent and the K-th most recent access.
C15_EvictPicksGreatestDistance ==
    [][(LRUKReplacer_evict /\ Evictable(replacer) # {})
       => /\ last'.ret = "Some"
          /\ Evicted \in Evictable(replacer)
          /\ \A g \in Evictable(replacer) : Outranks(Evicted, g)]_vars

\* C16: for every K >= 1, evict() returns None only when no frame is
\* evictable; otherwise it takes exactly one evictable frame out and lowers
\* size() by one, so repeated calls return each evictable frame once and then
\* None; an evict() that returns None leaves size() as it was.
C16_EvictEnumeratesEvictable ==
    [][LRUKReplacer_evict
       => IF Evictable(replacer) = {}
          THEN /\ last'.ret = "None"
               /\ size(replacer') = size(replacer)
               /\ Tracked(replacer') = Tracked(replacer)
          ELSE /\ last'.ret = "Some"
               /\ Evicted \in Evictable(replacer)
               /\ Tracked(replacer') = Tracked(replacer) \ {Evicted}
               /\ Evictable(replacer') = Evictable(replacer) \ {Evicted}
               /\ size(replacer') = size(replacer) - 1]_vars

\* C17: after any sequence of record_access, set_evictable, evict and remove
\* calls, size() is the number of tracked frames whose evictable flag is true.
C17_SizeCountsEvictable ==
    [](size(replacer) = Cardinality(Evictable(replacer)))

C17_Witness ==
    /\ last.op \in {"evict", "remove"}
    /\ last.ret \in {"Some", "unit"}
    /\ size(replacer) >= 1
    /\ Evictable(replacer) # Tracked(replacer)
    /\ Cardinality(Tracked(replacer)) < replacer.current_timestamp

\* every node but frame_id's is as it was, and frame_id's history too
OthersUntouched(frame_id) ==
    /\ Tracked(replacer') = Tracked(replacer)
    /\ \A g \in Tracked(replacer) \ {frame_id} :
          replacer'.node_store[g] = replacer.node_store[g]
    /\ replacer'.node_store[frame_id].history = replacer.node_store[frame_id].history
    /\ replacer'.current_timestamp = replacer.current_timestamp

\* C18: set_evictable(frame_id, flag) changes nothing on a tracked frame
\* whose flag already is the argument; false -> true raises size() by one and
\* true -> false lowers it by one, histories untouched; on a frame that is
\* not tracked it fails fatally.
C18_SetEvictableIdempotent ==
    [][\A f \in FrameIds, flag \in BOOLEAN :
          LRUKReplacer_set_evictable(f, flag)
          => IF f \notin Tracked(replacer)
             THEN status' = "panic" /\ replacer' = replacer
             ELSE /\ status' = "ok"
                  /\ OthersUntouched(f)
                  /\ replacer'.node_store[f].is_evictable = flag
                  /\ IF replacer.node_store[f].is_evictable = flag
                     THEN replacer' = replacer
                     ELSE size(replacer') =
                             size(replacer) + (IF flag THEN 1 ELSE -1)]_vars

C18_Witness ==
    /\ last.op = "set_evictable"
    /\ last.ret = "unit"
    /\ size(replacer) = 1
    /\ \E f, g \in Tracked(replacer) :
          /\ ~replacer.node_store[f].is_evictable
          /\ replacer.node_store[g].is_evictable
          /\ Len(replacer.node_store[f].history) = 2

\* C19: remove(frame_id) on a tracked evictable frame discards its history
\* and lowers size() by one, whatever its backward-k-distance; it does
\* nothing on a frame that is not tracked; on a tracked non-evictable frame
\* it fails fatally and the history is still there.
C19_RemoveDiscardsEvictable ==
    [][\A f \in FrameIds :
          LRUKReplacer_remove(f)
          => IF f \notin Tracked(replacer)
             THEN status' = "ok" /\ replacer' = replacer
             ELSE IF replacer.node_store[f].is_evictable
             THEN /\ status' = "ok"
                  /\ Tracked(replacer') = Tracked(replacer) \ {f}
                  /\ \A g \in Tracked(replacer') :
                        replacer'.node_store[g] = replacer.node_store[g]
                  /\ size(replacer') = size(replacer) - 1
             ELSE /\ status' = "panic"
                  /\ replacer' = replacer]_vars

\* a remove() took out a frame that evict() would not have picked
C19_Witness ==
    /\ last.op = "remove"
    /\ last.ret = "unit"
    /\ size(replacer) = 1
    /\ \E g \in Evictable(replacer) :
          /\ Len(replacer.node_store[g].history) = 1
          /\ replacer.node_store[g].history[1] = 0
          /\ replacer.k = 2
          /\ replacer.current_timestamp >= 3

\* C20: record_access(frame_id) fails fatally exactly when frame_id is larger
\* than the configured capacity (num_frames); within the capacity it
\* succeeds however many frames are tracked or evictable.
C20_RecordAccessChecksFrameId ==
    [][\A f \in FrameIds :
          LRUKReplacer_record_access(f)
          => (status' = "panic") = (f > replacer.replacer_size)]_vars

\* C21: the worker runs the requests in the order schedule() enqueued them
\* (request ids count that order), one at a time, and sends a request's
\* completion signal only after its disk call; so signals go out in enqueue
\* order, whichever callers scheduled them.
C21_WorkerIsFifo ==
    /\ \A i \in DOMAIN executed : executed[i] = i
    /\ \A i \in DOMAIN fired : fired[i] = i
    /\ Len(fired) <= Len(executed)
    /\ Len(executed) <= Len(fired) + 1
    /\ \A r \in DOMAIN requests : requests[r].sent => r <= Len(executed)
    /\ worker.pc = "exec" => worker.r = Len(executed) + 1 /\ Len(fired) = Len(executed)
    /\ worker.pc = "send" => worker.r = Len(executed) /\ Len(fired) = Len(executed) - 1

C21_Witness ==
    /\ fired = <<1>>
    /\ executed = <<1, 2>>
    /\ worker = [pc |-> "send", r |-> 2]
    /\ request_queue = <<3>>

\* C22: every request handed to schedule() is eventually run by the worker
\* and its completion signal sent, whatever the callers do with the
\* receiving ends, dropping them included.
C22_ScheduledEventuallyRuns ==
    \A r \in 1..MaxRequests :
        (r \in DOMAIN requests)
        ~> (/\ \E i \in DOMAIN executed : executed[i] = r
            /\ \E i \in DOMAIN fired : fired[i] = r)

\* C23: dropping the scheduler puts the sentinel behind every request already
\* scheduled; the worker runs all of them before it takes the sentinel and
\* leaves its loop, and the drop returns, only once the worker was joined.
C23_DropDrainsThenJoins ==
    /\ [][DiskScheduler_drop_send
          => /\ scheduler' = "joining"
             /\ request_queue' = Append(request_queue, NoRequest)]_vars
    /\ [](worker.pc = "exited" => Len(executed) = Len(requests))
    /\ [](scheduler = "dropped"
          => /\ worker.pc = "exited"
             /\ request_queue = <<>>
             /\ Len(executed) = Len(requests))
    /\ (scheduler = "joining") ~> (scheduler = "dropped")

\* C24: read_page never fails because of the file length: for every page
\* id, also one whose offset lies beyond the end of the file, the buffer gets
\* the file's bytes and zeros for what the file does not hold.
C24_ReadToleratesShortFile ==
    [][\A p \in DiskPageIds :
          DiskManager_read_page(p)
          => /\ status' = "ok"
             /\ buf' = (IF p < Len(disk) THEN disk[p + 1] ELSE 0)]_vars

\* C25: after write_page(id, bytes) a read of id gives exactly those bytes
\* until the next write of id: a write leaves what is read for every other
\* id as it was, and a write beyond the end of the file extends the file.
C25_WriteThenRead ==
    [][\A p \in DiskPageIds, d \in DataValues :
          DiskManager_write_page(p, d)
          => /\ status' = "ok"
             /\ ~read_page_panics(disk', p)
             /\ read_page(disk', p) = d
             /\ Len(disk') = (IF p < Len(disk) THEN Len(disk) ELSE p + 1)
             /\ \A q \in DiskPageIds \ {p} :
                   ~read_page_panics(disk, q)
                   => /\ ~read_page_panics(disk', q)
                      /\ read_page(disk', q) = read_page(disk, q)]_vars

\* a page was written past a hole, then one below it was overwritten, and
\* the page past the hole was read back
C25_Witness ==
    /\ last = Call("read_page", "unit", <<<<"Read", 2>>>>)
    /\ disk = <<1, 0, 1>>
    /\ buf = 1

\* C26: no pool call waits for a completion signal with the page-table
\* mutex or the free-list mutex held: new_page, fetch_page, flush_page and
\* flush_all_pages have released both before the blocking wait starts.
C26_NoMutexAcrossWait ==
    /\ "page_table" \notin locked
    /\ "free_list" \notin locked

\* C27: while a caller keeps a read or write guard on the bytes of a
\* resident page, fetch_page and unpin_page on that page still complete:
\* neither waits for the guard.
C27_LatchIndependentOfPins ==
    [][\A page_id \in PageIds :
          (Resident(page_id) /\ latch[page_table[page_id]] # Unlatched)
          => /\ fetch_page(page_id) => status' # "hang"
             /\ \A is_dirty \in BOOLEAN :
                   unpin_page(page_id, is_dirty) => status' # "hang"]_vars

\* C28: releasing a page guard unpins its page exactly once: the call
\* returns, the pin count of the page is one less, the page is dirty if
\* get_data_mut was called through the guard, and the guard is gone.
C28_GuardReleaseUnpinsOnce ==
    [][\A g \in guards :
          PageGuard_drop(g)
          => /\ status' = "ok"
             /\ pages'[g.frame].pin_count = pages[g.frame].pin_count - 1
             /\ g.is_dirty => pages'[g.frame].is_dirty
             /\ g \notin guards']_vars

\* C29: while a WritePageGuard on a page lives no caller takes the read or
\* the write lock of that page, and while a ReadPageGuard on it lives no
\* caller takes its write lock.
C29_GuardsHoldTheLatch ==
    [][\A frame_id \in Frames :
          /\ (get_mut_data_guard(frame_id)
               \/ \E data \in 1..MaxData : get_mut_data(frame_id, data))
             => ~\E g \in guards : g.frame = frame_id /\ g.kind \in {"Read", "Write"}
          /\ get_data_guard(frame_id)
             => ~\E g \in guards : g.frame = frame_id /\ g.kind = "Write"]_vars

\* C30: every frame of the pool is on the free list exactly once or the
\* value of exactly one page-table entry, never both and never neither: the
\* page table is injective, free-list length plus page-table size is
\* pool_size, and the frame a page id maps to holds the page with that id.
C30_FramesPartitioned ==
    /\ \A p, q \in DOMAIN page_table : page_table[p] = page_table[q] => p = q
    /\ Len(free_list) + Cardinality(DOMAIN page_table) = pool_size
    /\ \A f \in Frames :
          Cardinality({i \in 1..Len(free_list) : free_list[i] = f})
          + Cardinality({p \in DOMAIN page_table : page_table[p] = f}) = 1
    /\ \A p \in DOMAIN page_table : pages[page_table[p]].page_id = p

\* C31: a resident frame is marked evictable in the replacer exactly when
\* the pin count of its page is 0, so size() is the number of resident pages
\* with pin count 0, and the replacer tracks no frame of the free list.
C31_EvictableIffUnpinned ==
    /\ \A p \in DOMAIN page_table :
          (page_table[p] \in Evictable(replacer))
          <=> (pages[page_table[p]].pin_count = 0)
    /\ size(replacer)
       = Cardinality({p \in DOMAIN page_table : pages[page_table[p]].pin_count = 0})
    /\ \A i \in 1..Len(free_list) : free_list[i] \notin Tracked(replacer)

\* C32: when every evictable frame has at least K recorded accesses, evict()
\* returns the one whose K-th most recent access is the oldest, that is the
\* one with the largest (current timestamp - timestamp of the K-th most
\* recent access), whatever the frames' latest accesses are.
C32_EvictPicksOldestKthAccess ==
    [][(/\ LRUKReplacer_evict
        /\ Evictable(replacer) # {}
        /\ \A f \in Evictable(replacer) :
              Len(replacer.node_store[f].history) >= replacer.k)
       => /\ last'.ret = "Some"
          /\ Evicted \in Evictable(replacer)
          /\ \A g \in Evictable(replacer) :
                replacer.current_timestamp - Head(replacer.node_store[Evicted].history)
                >= replacer.current_timestamp - Head(replacer.node_store[g].history)]_vars

\* a call that reuses an evicted frame: the free list is empty and the
\* replacer has one frame to hand out
ReusesEvictedFrame ==
    /\ free_list = <<>>
    /\ Cardinality(EvictCandidates(replacer)) = 1
    /\ \/ new_page
       \/ \E page_id \in PageIds : ~Resident(page_id) /\ fetch_page(page_id)

Victim == CHOOSE f \in EvictCandidates(replacer) : TRUE

\* C33: when new_page or fetch_page reuses an evicted frame whose page is
\* dirty, the first request of the call is the write of the old page, under
\* the old page id and with the old bytes, and it is on disk when the call is
\* over; the old page-table entry is gone; a read comes only after the write.
\* When the evicted page is clean the call schedules no write.
C33_WriteBackBeforeReuse ==
    [][ReusesEvictedFrame
       => LET page == pages[Victim]
          IN IF page.is_dirty
             THEN /\ Len(last'.reqs) >= 1
                  /\ last'.reqs[1] = <<"Write", page.page_id>>
                  /\ read_page(disk', page.page_id) = page.data
                  /\ \A i \in 2..Len(last'.reqs) : last'.reqs[i][1] = "Read"
                  /\ page.page_id \notin DOMAIN page_table'
             ELSE /\ \A i \in 1..Len(last'.reqs) : last'.reqs[i][1] # "Write"
                  /\ disk' = disk]_vars

\* a dirty page with bytes other than zero was written back by the eviction
\* of a fetch_page that then read another page into the frame
C33_Witness ==
    /\ last.op = "fetch_page"
    /\ last.ret = "Some"
    /\ Len(last.reqs) = 2
    /\ last.reqs[1][1] = "Write"
    /\ read_page(disk, last.reqs[1][2]) # 0

\* C34: fetch_page of a resident page raises the pin count of that page by
\* exactly 1, records exactly one access for its frame (the current
\* timestamp, appended to the frame's last K accesses), schedules no disk
\* request, and leaves the page's bytes and dirty flag, the page table, the
\* free list, the disk and every other page unchanged.
C34_FetchResidentFrame ==
    [][\A page_id \in PageIds :
          (Resident(page_id) /\ fetch_page(page_id))
          => LET f == page_table[page_id]
                 ts == replacer.current_timestamp
                 h == replacer.node_store[f].history
             IN /\ status' = "ok"
                /\ pages' = [pages EXCEPT ![f].pin_count = @ + 1]
                /\ last'.reqs = <<>>
                /\ UNCHANGED <<page_table, free_list, disk>>
                /\ replacer'.current_timestamp = ts + 1
                /\ DOMAIN replacer'.node_store = DOMAIN replacer.node_store
                /\ \A g \in DOMAIN replacer.node_store :
                      g # f => replacer'.node_store[g] = replacer.node_store[g]
                /\ replacer'.node_store[f].history
                   = IF Len(h) < replacer.k THEN Append(h, ts)
                     ELSE Append(Tail(h), ts)]_vars

\* a resident page was fetched again: two pins on it and no disk request
C34_Witness ==
    /\ last = Call("fetch_page", "Some", <<>>)
    /\ \E p \in DOMAIN page_table : pages[page_table[p]].pin_count = 2

\* the history of every tracked frame: 1 to K timestamps, strictly
\* increasing, all of them handed out already
HistoriesWellFormed ==
    \A f \in Tracked(replacer) :
        LET h == replacer.node_store[f].history
        IN /\ Len(h) >= 1
           /\ Len(h) <= replacer.k
           /\ \A i \in 1..(Len(h) - 1) : h[i] < h[i + 1]
           /\ \A i \in 1..Len(h) : h[i] < replacer.current_timestamp

\* C35: after any sequence of replacer operations every tracked frame's
\* history holds between 1 and K timestamps in strictly increasing order,
\* its most recent accesses; a record_access call uses a timestamp greater
\* than every earlier one (the counter, which it advances) and appends it,
\* dropping the oldest entry of a full history; a frame seen for the first
\* time gets an evictable node with a history of length 1.
C35_HistoryKeepsLastK ==
    /\ []HistoriesWellFormed
    /\ [][\A f \in FrameIds :
            (LRUKReplacer_record_access(f) /\ status' = "ok")
            => /\ replacer'.current_timestamp = replacer.current_timestamp + 1
               /\ IF f \in Tracked(replacer)
                  THEN LET h == replacer.node_store[f].history
                       IN replacer'.node_store[f].history
                          = IF Len(h) < replacer.k
                            THEN Append(h, replacer.current_timestamp)
                            ELSE Append(Tail(h), replacer.current_timestamp)
                  ELSE /\ replacer'.node_store[f].history
                          = <<replacer.current_timestamp>>
                       /\ replacer'.node_store[f].is_evictable]_vars

\* a frame accessed three times with K = 2 keeps its last two accesses
C35_Witness ==
    /\ replacer.k = 2
    /\ last = Call("record_access", "unit", <<>>)
    /\ \E f \in Tracked(replacer) : replacer.node_store[f].history = <<1, 2>>

\* C36: an evict() that returns a frame removes that frame's node, history
\* and flag with it, lowers size() by exactly 1 and leaves every other node
\* as it was; a record_access of a frame without a node, an evicted one
\* included, starts a history of length 1 on an evictable node whose
\* backward-k-distance is infinite when K > 1.
C36_EvictForgetsVictim ==
    /\ [][(LRUKReplacer_evict /\ last'.ret = "Some")
          => /\ Evicted \in Tracked(replacer)
             /\ Tracked(replacer') = Tracked(replacer) \ {Evicted}
             /\ size(replacer') = size(replacer) - 1
             /\ \A g \in Tracked(replacer') :
                   replacer'.node_store[g] = replacer.node_store[g]]_vars
    /\ [][\A f \in FrameIds :
            (/\ LRUKReplacer_record_access(f)
             /\ f \notin Tracked(replacer)
             /\ status' = "ok")
            => LET node == replacer'.node_store[f]
               IN /\ Len(node.history) = 1
                  /\ node.is_evictable
                  /\ replacer.k > 1 => backward_k_distance(node).inf]_vars

\* evict() took a frame with a full history out and left another, evictable
\* frame behind
C36_Witness ==
    /\ last = Call("evict", "Some", <<>>)
    /\ replacer.k = 2
    /\ Cardinality(Tracked(replacer)) = 1
    /\ Evictable(replacer) = Tracked(replacer)
    /\ replacer.current_timestamp >= 3

\* C37: the log file is append-only.  After any interleaving of write_log
\* and read_log, on a log file that existed or did not exist when the disk
\* manager was created, the file holds the write_log arguments one after the
\* other; read_log(buffer, offset) returns false exactly when offset is at
\* or beyond the length of the log and otherwise fills the buffer with the
\* log's bytes from offset on.
C37_LogIsAppendOnly ==
    /\ [](log_io.file = log_written)
    /\ [][\A len \in 1..MaxLogBuf, offset \in 0..MaxLogSize :
            DiskManager_read_log(len, offset)
            => /\ (last'.ret = "false") = (offset >= Len(log_written))
               /\ last'.ret = "true"
                  => \A i \in 1..len :
                        buf'[i] = IF offset + i <= Len(log_written)
                                  THEN log_written[offset + i] ELSE 0]_vars

\* C38: buffer pool operations cannot deadlock: no call blocks on a lock,
\* and in particular no call tries to take a mutex its own thread holds, so
\* every new_page, fetch_page, unpin_page, flush_page and delete_page
\* returns.
C38_NoSelfDeadlock ==
    [][/\ status' # "hang"
       /\ \A page_id \in PageIds : delete_page(page_id) => status' = "ok"]_vars

\* the resident pages whose dirty flag is set
DirtyResident ==
    {p \in DOMAIN page_table : pages[page_table[p]].is_dirty}

\* C39: flush_all_pages returns; it schedules one write for every resident
\* page whose dirty flag is set and none for any other page; it leaves the
\* pages' pin counts and bytes, the page table, the free list and the
\* replacer unchanged; afterwards the disk copy of every resident page that
\* was dirty equals its bytes in memory, and every other page of the disk
\* holds the bytes it held before.
C39_FlushAllWritesDirty ==
    [][flush_all_pages
       => /\ status' = "ok"
          /\ Len(last'.reqs) = Cardinality(DirtyResident)
          /\ {last'.reqs[i] : i \in 1..Len(last'.reqs)}
             = {<<"Write", p>> : p \in DirtyResident}
          /\ UNCHANGED <<page_table, free_list, replacer>>
          /\ \A f \in Frames :
                /\ pages'[f].pin_count = pages[f].pin_count
                /\ pages'[f].data = pages[f].data
                /\ pages'[f].page_id = pages[f].page_id
          /\ \A p \in DirtyResident :
                read_page(disk', p) = pages[page_table[p]].data
          /\ \A p \in PageIds \ DirtyResident :
                read_page(disk', p) = read_page(disk, p)]_vars

\* flush_all_pages wrote a dirty page with bytes other than zero and passed
\* over a resident page whose dirty flag is clear
C39_Witness ==
    /\ last.op = "flush_all_pages"
    /\ last.ret = "unit"
    /\ Len(last.reqs) = 1
    /\ read_page(disk, last.reqs[1][2]) # 0
    /\ \E p \in DOMAIN page_table : ~pages[page_table[p]].is_dirty

\* C40: set_lsn changes only the 8 bytes at offsets 4 to 11 of the page
\* buffer and leaves every other byte, the page id, the pin count and the
\* dirty flag as they were; a get_lsn right after it returns its argument; a
\* store to a byte outside offsets 4 to 11 does not change what get_lsn
\* returns; and get_lsn returns the field and changes nothing.  So get_lsn
\* returns the value of the most recent set_lsn as long as no other write
\* touched bytes 4 to 11.
C40_LsnField ==
    /\ [][\A lsn \in LsnValues :
            Page_set_lsn(lsn)
            => /\ get_lsn(pages'[0]) = lsn
               /\ \A i \in 0..(MaxPageBytes - 1) :
                     (i < 4 \/ i > 11) => pages'[0].data[i + 1] = pages[0].data[i + 1]
               /\ Len(pages'[0].data) = Len(pages[0].data)
               /\ pages'[0].page_id = pages[0].page_id
               /\ pages'[0].pin_count = pages[0].pin_count
               /\ pages'[0].is_dirty = pages[0].is_dirty]_vars
    /\ [][\A offset \in ByteOffsets, byte \in 0..MaxByte :
            (Page_store_byte(offset, byte) /\ (offset < 4 \/ offset > 11))
            => get_lsn(pages'[0]) = get_lsn(pages[0])]_vars
    /\ [][Page_get_lsn => buf' = get_lsn(pages[0]) /\ pages' = pages]_vars

\* set_lsn stored the largest Lsn between bytes 3 and 12, which a caller
\* had set before, and get_lsn read it back
C40_Witness ==
    /\ last.op = "get_lsn"
    /\ buf = LsnMax
    /\ pages[0].data[4] = MaxByte
    /\ pages[0].data[13] = MaxByte
    /\ pages[0].is_dirty

====
